---- MODULE Spec2Model ----
(***************************************************************************)
(* Off-chain price/tick conversion and rebalance-decision logic of the     *)
(* Uniswap liquidity-manager automation scripts                            *)
(* (Phase3_Smart_Contract/test): tick-spacing alignment, the four range    *)
(* calculators, the price-to-tick conversions, the evaluation cycles       *)
(* (BaselineTest, PredictiveTest, create_position) and the funding step    *)
(* PredictiveTest.fund_contract_if_needed.                                 *)
(*                                                                         *)
(* Python's // and % on a positive divisor are floor division and the      *)
(* non-negative remainder, which is what \div and % are here.              *)
(***************************************************************************)
EXTENDS Integers, Sequences, FiniteSets, TLC

\* ---------------------------------------------------------------------
\* Program constants
\* ---------------------------------------------------------------------
MIN_TICK == -887272
MAX_TICK == 887272
MIN_TICK_CONST == -887272
MAX_TICK_CONST == 887272
TICK_ADJUSTMENT_THRESHOLD == 0
width_multiplier == 4

\* ---------------------------------------------------------------------
\* Bounds of the model
\* ---------------------------------------------------------------------
\* ticks are taken within Reach of MIN_TICK, of 0 and of MAX_TICK
Reach == 24
\* tick spacings 1..MaxSpacing
MaxSpacing == 10
\* width multipliers 1..MaxMult
MaxMult == 4

CenterTicks ==
    {MIN_TICK + d : d \in 0..Reach} \cup (-Reach..Reach) \cup {MAX_TICK - d : d \in 0..Reach}
Spacings == 1..MaxSpacing
Mults == 1..MaxMult

Max(a, b) == IF a >= b THEN a ELSE b
Min(a, b) == IF a <= b THEN a ELSE b
Abs(a) == IF a < 0 THEN -a ELSE a

\* ---------------------------------------------------------------------
\* Tick-spacing alignment
\* ---------------------------------------------------------------------
\* variant that truncates toward zero instead of flooring
floor_to_tick_spacing_trunc(tick, tick_spacing) ==
    IF tick_spacing <= 0 THEN tick
    ELSE IF tick < 0 THEN -(((-tick) \div tick_spacing) * tick_spacing)
         ELSE (tick \div tick_spacing) * tick_spacing

\* TickCalculator.floor_to_tick_spacing: tick // tick_spacing already floors,
\* and a negative tick that is not a multiple is decremented once more.
floor_to_tick_spacing(tick, tick_spacing) ==
    IF tick_spacing <= 0 THEN tick
    ELSE LET compressed == tick \div tick_spacing
             compressed2 == IF tick < 0 /\ tick % tick_spacing # 0
                            THEN compressed - 1 ELSE compressed
         IN  compressed2 * tick_spacing

\* floor_to_tick_spacing_py of test_create_position.py: the same code
floor_to_tick_spacing_py(tick, tick_spacing) ==
    IF tick_spacing <= 0 THEN tick
    ELSE LET compressed == tick \div tick_spacing
             compressed2 == IF tick < 0 /\ (tick % tick_spacing # 0)
                            THEN compressed - 1 ELSE compressed
         IN  compressed2 * tick_spacing

\* math.floor(x / tick_spacing) * tick_spacing of BaselineTest
floor_div_align(x, tick_spacing) == (x \div tick_spacing) * tick_spacing

\* ---------------------------------------------------------------------
\* Range calculators.  A result is [ok, lower, upper]; ok = FALSE stands
\* for the failure value of the function ((None, None) or (-1, -1)).
\* ---------------------------------------------------------------------
Range(lo, up) == [ok |-> TRUE, lower |-> lo, upper |-> up]
NoneRange == [ok |-> FALSE, lower |-> 0, upper |-> 0]
FailRange == [ok |-> FALSE, lower |-> -1, upper |-> -1]

\* half_width of TickCalculator.calculate_tick_range
TickCalculator_half_width(tick_spacing, range_multiplier) ==
    LET hw0 == (tick_spacing * range_multiplier) \div 2
    IN  IF hw0 <= 0 THEN tick_spacing ELSE hw0

\* half_width of the module-level calculate_tick_range
module_half_width(tick_spacing, range_multiplier) ==
    LET hw0 == (tick_spacing * range_multiplier) \div 2
    IN  IF hw0 <= 0 THEN tick_spacing ELSE hw0

\* half_width of BaselineTest.calculate_target_ticks_offchain
baseline_half_width(tick_spacing) ==
    LET hw0 == (tick_spacing * width_multiplier) \div 2
    IN  IF hw0 < tick_spacing THEN tick_spacing ELSE hw0

\* half_width of calculate_ticks_predictive_py: floored once more to a
\* multiple of the tick spacing
predictive_half_width(tick_spacing, range_width_multiplier) ==
    LET hw0 == (tick_spacing * range_width_multiplier) \div 2
        hw1 == IF hw0 <= 0 THEN tick_spacing ELSE hw0
        hw2 == (hw1 \div tick_spacing) * tick_spacing
    IN  IF hw2 = 0 THEN tick_spacing ELSE hw2

\* TickCalculator.calculate_tick_range
TickCalculator_calculate_tick_range(current_tick, tick_spacing, range_multiplier) ==
    LET half_width == TickCalculator_half_width(tick_spacing, range_multiplier)
        lower0 == floor_to_tick_spacing(current_tick - half_width, tick_spacing)
        upper0 == floor_to_tick_spacing(current_tick + half_width, tick_spacing)
        upper1 == IF upper0 <= lower0 THEN lower0 + tick_spacing ELSE upper0
    IN  Range(Max(MIN_TICK, lower0), Min(MAX_TICK, upper1))

\* module-level calculate_tick_range of price_utils.py: clamps, then aligns
calculate_tick_range(center_tick, tick_spacing, range_multiplier) ==
    LET half_width == module_half_width(tick_spacing, range_multiplier)
        lower0 == Max(MIN_TICK, center_tick - half_width)
        upper0 == Min(MAX_TICK, center_tick + half_width)
    IN  Range((lower0 \div tick_spacing) * tick_spacing,
              (upper0 \div tick_spacing) * tick_spacing)

\* BaselineTest.calculate_target_ticks_offchain, for a tick spacing and a
\* current tick that are not None (has_spacing, has_tick)
calculate_target_ticks_offchain(has_spacing, tick_spacing, has_tick, current_tick) ==
    IF ~has_spacing THEN NoneRange
    ELSE IF ~has_tick THEN NoneRange
    ELSE
    LET half_width == baseline_half_width(tick_spacing)
        l0 == floor_div_align(current_tick - half_width, tick_spacing)
        u0 == floor_div_align(current_tick + half_width, tick_spacing)
        u1 == IF l0 >= u0 THEN l0 + tick_spacing ELSE u0
        l2 == Max(l0, MIN_TICK_CONST)
        u2 == Min(u1, MAX_TICK_CONST)
        l3 == IF l2 >= u2
              THEN Max(IF u2 = MAX_TICK_CONST THEN u2 - tick_spacing ELSE l2, MIN_TICK_CONST)
              ELSE l2
        u3 == IF l2 >= u2 /\ u2 # MAX_TICK_CONST THEN l2 + tick_spacing ELSE u2
    IN  IF l3 >= u3 \/ l3 < MIN_TICK_CONST \/ u3 > MAX_TICK_CONST
        THEN NoneRange
        ELSE Range(l3, u3)

\* calculate_ticks_predictive_py
calculate_ticks_predictive_py(target_center_tick, tick_spacing, range_width_multiplier) ==
    IF tick_spacing <= 0 \/ range_width_multiplier <= 0 THEN FailRange
    ELSE
    LET half_width == predictive_half_width(tick_spacing, range_width_multiplier)
        raw_tick_lower == target_center_tick - half_width
        raw_tick_upper == target_center_tick + half_width
        floorMin == floor_to_tick_spacing_py(MIN_TICK, tick_spacing)
        floorMax == floor_to_tick_spacing_py(MAX_TICK, tick_spacing)
        l0 == floor_to_tick_spacing_py(raw_tick_lower, tick_spacing)
        u0 == floor_to_tick_spacing_py(raw_tick_upper, tick_spacing)
        u1 == IF (raw_tick_upper % tick_spacing) # 0 /\ u0 < MAX_TICK
              THEN IF u0 <= MAX_TICK - tick_spacing THEN u0 + tick_spacing ELSE floorMax
              ELSE u0
        u2 == IF l0 >= u1 THEN l0 + tick_spacing ELSE u1
        l3 == Max(floorMin, l0)
        u3 == Min(floorMax, u2)
        l4 == IF l3 >= u3 THEN Max(floorMin, u3 - tick_spacing) ELSE l3
        \* final safety check
        fl0 == floor_to_tick_spacing_py(target_center_tick - tick_spacing, tick_spacing)
        fu0 == floor_to_tick_spacing_py(target_center_tick + tick_spacing, tick_spacing)
        fu1 == IF fl0 >= fu0 THEN fl0 + tick_spacing ELSE fu0
        fl2 == Max(floorMin, fl0)
        fu2 == Min(floorMax, fu1)
    IN  IF l4 >= u3
        THEN IF fl2 >= fu2 THEN FailRange ELSE Range(fl2, fu2)
        ELSE Range(l4, u3)

\* ---------------------------------------------------------------------
\* Prices.  A positive price is held by its logarithm: price = 1.0001^(lg/Sub),
\* lg an integer, so that prices lie on a grid of 1/Sub tick and price order is
\* the order of lg; sign <= 0 is a zero or negative price.  Multiplying by
\* 10^k adds k * LOG_TEN_TICKS * Sub, 1/x negates, sqrt halves, and
\* log(x) / (0.5 * LOG_1_0001) of a square root is lg / Sub; the conversions
\* below are the floating-point code read in exact arithmetic on that grid.
\* ---------------------------------------------------------------------
\* log of 10 to base 1.0001, in ticks (math.log(10) / LOG_1_0001 = 23027.002)
LOG_TEN_TICKS == 23027
\* grid steps per tick
Sub == 2
\* prices within PriceReach ticks of 1.0
PriceReach == 2

Price(l) == [sign |-> 1, lg |-> l]
ZeroPrice == [sign |-> 0, lg |-> 0]
NegativePrice == [sign |-> -1, lg |-> 0]
PositivePrices == {Price(l) : l \in (-(PriceReach * Sub))..(PriceReach * Sub)}
Prices == PositivePrices \cup {ZeroPrice, NegativePrice}
\* two prices far outside the tick range: 1.0001^(-4 * MAX_TICK) and
\* 1.0001^(4 * MAX_TICK), about 1e-154 and 1e154
ExtremePrices == {Price(-(4 * MAX_TICK * Sub)), Price(4 * MAX_TICK * Sub)}
Decimals == {0, 6, 18}

\* int(x) of Python: truncation toward zero of n / d, d > 0
Trunc(n, d) == IF n >= 0 THEN n \div d ELSE -((-n) \div d)
\* math.floor(n / d), d > 0
Floor(n, d) == n \div d
Clamp(lo, hi, x) == Max(lo, Min(hi, x))

Tick(t) == [ok |-> TRUE, tick |-> t]
NoTick == [ok |-> FALSE, tick |-> 0]

\* TickCalculator.price_to_tick: sqrt(1 / price_adjusted), int() of the
\* logarithm, clamp; any exception (price <= 0) returns 0
TickCalculator_price_to_tick(price, token0_decimals, token1_decimals) ==
    IF price.sign <= 0 THEN Tick(0)
    ELSE LET decimal_adjustment == token1_decimals - token0_decimals
             lg_adjusted == price.lg + decimal_adjustment * LOG_TEN_TICKS * Sub
             lg_inverse == -lg_adjusted
         IN  Tick(Clamp(MIN_TICK, MAX_TICK, Trunc(lg_inverse, Sub)))

\* module-level price_to_tick of price_utils.py: divides the logarithm of the
\* square root by LOG_1_0001 (not by half of it), no clamp, no try
price_to_tick(price, token0_decimals, token1_decimals) ==
    IF price.sign <= 0 THEN NoTick
    ELSE LET decimal_adjustment == token1_decimals - token0_decimals
             lg_adjusted == price.lg + decimal_adjustment * LOG_TEN_TICKS * Sub
             lg_inverse == -lg_adjusted
         IN  Tick(Trunc(lg_inverse, 2 * Sub))

\* PredictiveTest.calculate_tick_from_price: price * 10^(d0 - d1), floor of
\* the logarithm to base 1.0001 of the square root, clamp; None when a
\* decimals field is 0 or None, when the price is 0 or on an exception
calculate_tick_from_price(price, token0_decimals, token1_decimals) ==
    IF token0_decimals = 0 \/ token1_decimals = 0 THEN NoTick
    ELSE IF price.sign <= 0 THEN NoTick
    ELSE LET lg_adjusted == price.lg
                            + (token0_decimals - token1_decimals) * LOG_TEN_TICKS * Sub
         IN  Tick(Clamp(MIN_TICK_CONST, MAX_TICK_CONST, Floor(lg_adjusted, 2 * Sub)))

\* get_tick_at_sqrt_ratio_py, on the logarithm of the squared ratio
get_tick_at_sqrt_ratio_py(lg_ratio) ==
    Clamp(MIN_TICK, MAX_TICK, Floor(lg_ratio, Sub))

\* price_to_tick_predictive_py: MIN_TICK for a price <= 0, otherwise
\* ratio = (1 / price) * 10^(d1 - d0), its square root clamped to
\* [MIN_SQRT_RATIO, MAX_SQRT_RATIO] (the ratios at MIN_TICK and MAX_TICK)
price_to_tick_predictive_py(price_token0_token1, token0_decimals, token1_decimals) ==
    IF price_token0_token1.sign <= 0 THEN MIN_TICK
    ELSE LET lg_ratio == -price_token0_token1.lg
                         + (token1_decimals - token0_decimals) * LOG_TEN_TICKS * Sub
             lg_clamped == Clamp(MIN_TICK * Sub, MAX_TICK * Sub, lg_ratio)
         IN  get_tick_at_sqrt_ratio_py(lg_clamped)

\* The value whose integer part a conversion returns, as the fraction
\* num / den (den > 0): the argument of int() or math.floor() in the function
\* named f, for a positive price.
LogValue(f, price, token0_decimals, token1_decimals) ==
    LET inverse == -(price.lg + (token1_decimals - token0_decimals) * LOG_TEN_TICKS * Sub)
        direct == price.lg + (token0_decimals - token1_decimals) * LOG_TEN_TICKS * Sub
    IN  CASE f = "TickCalculator.price_to_tick" -> [num |-> inverse, den |-> Sub]
          [] f = "price_to_tick" -> [num |-> inverse, den |-> 2 * Sub]
          [] f = "PredictiveTest.calculate_tick_from_price" -> [num |-> direct, den |-> 2 * Sub]
          [] OTHER -> [num |-> Clamp(MIN_TICK * Sub, MAX_TICK * Sub, inverse), den |-> Sub]

\* ---------------------------------------------------------------------
\* The off-chain proximity check and the evaluation cycles
\* ---------------------------------------------------------------------
\* tick spacings of the evaluation scenarios: 1..MaxEvalSpacing
MaxEvalSpacing == 3
\* pool ticks of the evaluation scenarios: -EvalReach..EvalReach
EvalReach == 2
\* on-chain positions: bounds up to PosK spacing units from an anchor tick
PosK == 2
\* evaluation cycles per behaviour
MaxCycles == 2

EvalSpacings == 1..MaxEvalSpacing
PoolTicks == (-EvalReach)..EvalReach

\* the first multiple of s at or above t
AlignUp(t, s) == -(((-t) \div s) * s)
PosAnchors == {0, MIN_TICK}
PosTicks(s) == {AlignUp(a, s) + k * s : a \in PosAnchors, k \in (-PosK)..PosK}
                 \cap (MIN_TICK..MAX_TICK)
\* currentPosition() of the contract: (liquidity, tickLower, tickUpper, active)
Position(act, lo, up) == [active |-> act, tickLower |-> lo, tickUpper |-> up]
\* (an inactive position still carries whatever ticks the struct holds)
Positions(s) ==
    {p \in {Position(act, lo, up) : act \in BOOLEAN, lo \in PosTicks(s), up \in PosTicks(s)} :
        p.tickLower < p.tickUpper /\ p.tickUpper - p.tickLower <= 2 * PosK * s}

\* variant of the comparison that tolerates twice the threshold
is_close_twice(target_lower, target_upper, current_lower, current_upper, threshold) ==
    /\ Abs(target_lower - current_lower) <= 2 * threshold
    /\ Abs(target_upper - current_upper) <= 2 * threshold

\* the comparison of both scripts: both bounds within the threshold
is_close(target_lower, target_upper, current_lower, current_upper, threshold) ==
    /\ Abs(target_lower - current_lower) <= threshold
    /\ Abs(target_upper - current_upper) <= threshold

\* What one evaluation cycle did: the decision ("Skip", "Adjust" or "Failed"),
\* the value returned, the position snapshot it read ("unread", "failed",
\* "inactive", "active"), the target range it computed, whether it compared
\* the target with the current range, whether the target tick or range could
\* not be computed, and whether a transaction was sent.
Outcome(op, decision, ret, snapshot, target, compared, calc_failed, tx_sent) ==
    [op |-> op, decision |-> decision, ret |-> ret, snapshot |-> snapshot,
     target |-> target, compared |-> compared, calc_failed |-> calc_failed,
     tx_sent |-> tx_sent]
NoOutcome == Outcome("none", "none", FALSE, "unread", NoneRange, FALSE, FALSE, FALSE)

\* ---- BaselineTest.adjust_position --------------------------------------
ACTION_STATES ==
    {"init", "setup_failed", "pool_read_failed", "calculation_failed",
     "skipped_proximity", "funding_failed", "tx_sent", "tx_success_adjusted",
     "tx_success_skipped_onchain", "tx_reverted", "tx_wait_failed",
     "unexpected_error"}

\* what the chain does with the adjustment transaction of a cycle
TxOutcomes == {"send_failed", "wait_failed", "reverted", "adjusted",
               "skipped_onchain", "no_event"}

\* the proximity check made on the ticks of the position struct whether or
\* not the position is active
baseline_proximity_unguarded(has_current_position, target, current_lower, current_upper, tick_spacing) ==
    [compared |-> TRUE,
     is_close |-> is_close(target.lower, target.upper,
                           current_lower, current_upper, tick_spacing)]

\* step 4 of BaselineTest.adjust_position: only with a current position are
\* the target ticks compared, with TICK_PROXIMITY_THRESHOLD = tick_spacing
baseline_proximity(has_current_position, target, current_lower, current_upper, tick_spacing) ==
    IF has_current_position
    THEN [compared |-> TRUE,
          is_close |-> is_close(target.lower, target.upper,
                                current_lower, current_upper, tick_spacing)]
    ELSE [compared |-> FALSE, is_close |-> FALSE]

\* the final action state of the transaction part (step 6); had_hash is
\* whether metrics['tx_hash'] is set when the except branch reads it
baseline_tx_action(txo, had_hash) ==
    CASE txo = "send_failed" ->
            IF had_hash THEN "tx_wait_failed" ELSE "unexpected_error"
      [] txo = "wait_failed" -> "tx_wait_failed"
      [] txo = "reverted" -> "tx_reverted"
      [] txo = "skipped_onchain" -> "tx_success_skipped_onchain"
      [] OTHER -> "tx_success_adjusted"

\* ---- the stages a cycle passes through -----------------------------------
\* "PriceObtained", "TickComputed", "RangeComputed", "Decided", "Submitted"
\* (the adjustment transaction is attempted) and "Failed" (the cycle takes a
\* failure return), in the order in which the code reaches them
FailedTxOutcomes == {"send_failed", "wait_failed", "reverted"}

\* variant that attempts the transaction once more after it failed
baseline_stages_retry(pool_ok, target_ok, close, txo) ==
    IF ~pool_ok THEN <<"Failed">>
    ELSE IF ~target_ok THEN <<"PriceObtained", "TickComputed", "Failed">>
    ELSE IF close THEN <<"PriceObtained", "TickComputed", "RangeComputed", "Decided">>
    ELSE IF txo \in FailedTxOutcomes
    THEN <<"PriceObtained", "TickComputed", "RangeComputed", "Decided", "Submitted",
           "Failed", "Submitted">>
    ELSE <<"PriceObtained", "TickComputed", "RangeComputed", "Decided", "Submitted">>

\* BaselineTest.adjust_position: get_pool_state yields price and tick, then
\* the target range, the proximity check and the transaction; every failure
\* returns at once
baseline_stages(pool_ok, target_ok, close, txo) ==
    IF ~pool_ok THEN <<"Failed">>
    ELSE IF ~target_ok THEN <<"PriceObtained", "TickComputed", "Failed">>
    ELSE IF close THEN <<"PriceObtained", "TickComputed", "RangeComputed", "Decided">>
    ELSE IF txo \in FailedTxOutcomes
    THEN <<"PriceObtained", "TickComputed", "RangeComputed", "Decided", "Submitted",
           "Failed">>
    ELSE <<"PriceObtained", "TickComputed", "RangeComputed", "Decided", "Submitted">>

\* PredictiveTest.adjust_position: prediction, tick, funding, transaction;
\* there is no off-chain range and no off-chain decision
predictive_stages(api_ok, tick_ok, fund_ok, txo) ==
    IF ~api_ok THEN <<"Failed">>
    ELSE IF ~tick_ok THEN <<"PriceObtained", "Failed">>
    ELSE IF ~fund_ok THEN <<"PriceObtained", "TickComputed", "Failed">>
    ELSE IF txo \in FailedTxOutcomes
    THEN <<"PriceObtained", "TickComputed", "Submitted", "Failed">>
    ELSE <<"PriceObtained", "TickComputed", "Submitted">>

\* One call of BaselineTest.adjust_position on metrics m in cycle number n:
\* the new metrics and what the cycle did.
baseline_adjust_position(m, n, tick_spacing, pool_ok, current_tick, pos_ok, pos, txo) ==
    LET has_current_position == pos_ok /\ pos.active
        target == calculate_target_ticks_offchain(TRUE, tick_spacing, pool_ok, current_tick)
        prox == baseline_proximity(has_current_position, target,
                                   pos.tickLower, pos.tickUpper, tick_spacing)
        snapshot == IF ~pos_ok THEN "failed"
                    ELSE IF pos.active THEN "active" ELSE "inactive"
        sent == txo # "send_failed"
        hash == IF sent THEN n ELSE m.tx_hash
        op == "BaselineTest.adjust_position"
        st == baseline_stages(pool_ok, target.ok, prox.is_close, txo)
    IN  IF ~pool_ok
        THEN [metrics |-> [m EXCEPT !.action_taken = "pool_read_failed"],
              out |-> Outcome(op, "Failed", FALSE, "unread", NoneRange, FALSE, FALSE, FALSE),
              stages |-> st]
        ELSE IF ~target.ok
        THEN [metrics |-> [m EXCEPT !.action_taken = "calculation_failed"],
              out |-> Outcome(op, "Failed", FALSE, snapshot, target, FALSE, TRUE, FALSE),
              stages |-> st]
        ELSE IF prox.is_close
        THEN [metrics |-> [m EXCEPT !.action_taken = "skipped_proximity"],
              out |-> Outcome(op, "Skip", TRUE, snapshot, target, prox.compared, FALSE, FALSE),
              stages |-> st]
        ELSE [metrics |-> [m EXCEPT !.action_taken = baseline_tx_action(txo, hash # 0),
                                    !.tx_hash = hash],
              out |-> Outcome(op, "Adjust",
                              txo \in {"adjusted", "skipped_onchain", "no_event"},
                              snapshot, target, prox.compared, FALSE, sent),
              stages |-> st]

\* ---- should_adjust_position of test_create_position.py -------------------
\* the result (should_adjust, csv_data) and what the evaluation did
Verdict(adjust, snap, tgt, cmp, failed) ==
    Outcome("should_adjust_position", IF adjust THEN "Adjust" ELSE "Skip", adjust,
            snap, tgt, cmp, failed, FALSE)

\* step 3 of should_adjust_position: both differences within
\* TICK_ADJUSTMENT_THRESHOLD
should_adjust_compare(target, current_lower, current_upper, tick_spacing) ==
    is_close(target.lower, target.upper, current_lower, current_upper,
             TICK_ADJUSTMENT_THRESHOLD)

\* env: "ok", "no_w3" (Web3 not initialised), "no_address" (contract address
\* not configured) or "rpc_error" (get_contract, get_contract_params or the
\* position call raises)
should_adjust_position(env, is_baseline, price, params, pos) ==
    IF env = "no_w3" THEN Verdict(TRUE, "unread", NoneRange, FALSE, FALSE)
    ELSE IF env = "no_address" THEN Verdict(FALSE, "unread", NoneRange, FALSE, FALSE)
    ELSE IF env = "rpc_error" \/ params.tickSpacing <= 0
    THEN Verdict(TRUE, "failed", NoneRange, FALSE, FALSE)
    ELSE IF ~pos.active THEN Verdict(TRUE, "inactive", NoneRange, FALSE, FALSE)
    \* the baseline branch uses factory and calculate_ticks_baseline_py, which
    \* are defined nowhere: NameError, caught by the outer except
    ELSE IF is_baseline THEN Verdict(TRUE, "active", NoneRange, FALSE, TRUE)
    ELSE
    LET target_center_tick ==
            price_to_tick_predictive_py(price, params.token0Decimals, params.token1Decimals)
        target == calculate_ticks_predictive_py(target_center_tick, params.tickSpacing,
                                                params.rangeWidthMultiplier)
        no_tick == price.sign <= 0
    IN  IF target_center_tick = -1
        THEN Verdict(TRUE, "active", NoneRange, FALSE, no_tick)
        ELSE IF target.lower = -1 \/ target.upper = -1
        THEN Verdict(TRUE, "active", target, FALSE, no_tick \/ ~target.ok)
        ELSE IF should_adjust_compare(target, pos.tickLower, pos.tickUpper,
                                      params.tickSpacing)
        THEN Verdict(FALSE, "active", target, TRUE, no_tick)
        ELSE Verdict(TRUE, "active", target, TRUE, no_tick)

\* ---- the price source ---------------------------------------------------
\* log of 3000 to base 1.0001, in ticks (the final fallback price 3000.0)
FALLBACK_TICKS == 80067
FallbackPrice == Price(FALLBACK_TICKS * Sub)

\* what the price-sourcing step hands to the cycle
Supplied(p) == [available |-> TRUE, price |-> p]
Unavailable == [available |-> FALSE, price |-> ZeroPrice]

\* get_predicted_price of test_create_position.py and of utils/price_utils.py:
\* the price of an API that answered, otherwise the fallback price
get_predicted_price(api_ok, api_price) ==
    IF api_ok THEN Supplied(api_price) ELSE Supplied(FallbackPrice)

\* PredictiveTest.get_predicted_price_from_api: None when the API fails
get_predicted_price_from_api(api_ok, api_price) ==
    IF api_ok THEN Supplied(api_price) ELSE Unavailable

\* ---- what a cycle consumed and left behind -----------------------------
\* the environment as the cycle met it: "ok", "failed", or "unread" for a
\* step the cycle never reached; tx is the fate of the transaction, "none"
\* when none was attempted
Env(setup, api, pool, pos, fund, tx) ==
    [setup |-> setup, api |-> api, pool |-> pool, pos |-> pos, fund |-> fund, tx |-> tx]
Status(ok) == IF ok THEN "ok" ELSE "failed"

\* env, the price handed to the cycle, whether a funding transfer was
\* attempted and whether a metrics row was saved before the cycle returned
Run(env, price, funding, saved) ==
    [env |-> env, price |-> price, funding |-> funding, saved |-> saved]
NoRun == Run(Env("unread", "unread", "unread", "unread", "unread", "none"),
             Unavailable, FALSE, FALSE)

\* ---- BaselineTest.execute_test_steps -----------------------------------
\* setup, then adjust_position; a failed setup saves its own row, and every
\* return of adjust_position is preceded by save_metrics
baseline_execute_test_steps(m, n, tick_spacing, setup_ok, pool_ok, current_tick, pos_ok, pos, txo) ==
    LET r == baseline_adjust_position(m, n, tick_spacing, pool_ok, current_tick,
                                      pos_ok, pos, txo)
        tried == r.out.decision = "Adjust"
    IN  IF ~setup_ok
        THEN [metrics |-> [m EXCEPT !.action_taken = "setup_failed"],
              out |-> Outcome("BaselineTest.setup", "Failed", FALSE, "unread",
                              NoneRange, FALSE, FALSE, FALSE),
              stages |-> <<"Failed">>,
              run |-> Run(Env("failed", "unread", "unread", "unread", "unread", "none"),
                          Unavailable, FALSE, TRUE)]
        ELSE [metrics |-> r.metrics,
              out |-> r.out,
              stages |-> r.stages,
              run |-> Run(Env("ok", "unread", Status(pool_ok),
                              IF pool_ok THEN Status(pos_ok) ELSE "unread",
                              "unread", IF tried THEN txo ELSE "none"),
                          Unavailable, FALSE, TRUE)]

\* ---- create_position of test_create_position.py -------------------------
\* the transaction fates create_position tells apart
CreateTxOutcomes == {"send_failed", "wait_failed", "reverted", "adjusted"}

\* the funding step runs only when the off-chain check asks for a transaction
funding_attempted_always(should_run_tx) == TRUE
funding_attempted(should_run_tx) == should_run_tx

\* create_position after the off-chain check returned v: a skipped check
\* returns at once; otherwise send_tokens_to_contract, then the transaction.
\* A skipped check, a failed funding and every end of the transaction part
\* save a row.
create_position_steps(v, supplied, fund_ok, txo) ==
    LET funding == funding_attempted(v.ret)
        sends == v.ret /\ fund_ok
    IN  [out |-> Outcome("create_position", v.decision, v.ret, v.snapshot, v.target,
                         v.compared, v.calc_failed, sends /\ txo # "send_failed"),
         run |-> Run(Env("unread", "unread", "unread",
                         IF v.snapshot = "unread" THEN "unread"
                         ELSE IF v.snapshot = "failed" THEN "failed" ELSE "ok",
                         IF funding THEN Status(fund_ok) ELSE "unread",
                         IF sends THEN txo ELSE "none"),
                     supplied, funding, TRUE)]

\* One call of create_position with the price data of the cycle.
create_position(supplied, env, is_baseline, params, pos, fund_ok, txo) ==
    IF env \in {"no_w3", "no_address"}
    THEN [out |-> Outcome("create_position", "Failed", FALSE, "unread",
                          NoneRange, FALSE, FALSE, FALSE),
          run |-> Run(Env("failed", "unread", "unread", "unread", "unread", "none"),
                      supplied, FALSE, FALSE)]
    ELSE create_position_steps(
             should_adjust_position(env, is_baseline, supplied.price, params, pos),
             supplied, fund_ok, txo)

\* ---- PredictiveTest through LiquidityTestBase.execute_test_steps ---------
\* the final action state of step 5 of PredictiveTest.adjust_position;
\* send_transaction returns None when sending or waiting fails
predictive_tx_action(txo) ==
    CASE txo \in {"send_failed", "wait_failed"} -> "tx_wait_failed"
      [] txo = "reverted" -> "tx_reverted"
      [] OTHER -> "tx_success_adjusted"

\* setup, then adjust_position (metrics reset, prediction, tick, funding,
\* transaction).  A failed setup returns without saving; there is no
\* off-chain comparison, every cycle that gets a tick asks for the adjustment.
predictive_execute_test_steps(n, setup_ok, api_ok, api_price, token0_decimals, token1_decimals, fund_ok, txo) ==
    LET supplied == get_predicted_price_from_api(api_ok, api_price)
        predicted_tick == calculate_tick_from_price(supplied.price, token0_decimals,
                                                    token1_decimals)
        \* a negative price raises inside calculate_tick_from_price, which then
        \* sets the action; a zero price or missing decimals return None at once
        tick_action == IF token0_decimals # 0 /\ token1_decimals # 0
                          /\ supplied.price.sign < 0
                       THEN "calculation_failed" ELSE "init"
        op == "PredictiveTest.adjust_position"
        sent == txo # "send_failed"
        reset == [action_taken |-> "init", tx_hash |-> 0]
        st == predictive_stages(supplied.available, predicted_tick.ok, fund_ok, txo)
    IN  IF ~setup_ok
        THEN [metrics |-> [reset EXCEPT !.action_taken = "setup_failed"],
              tick |-> NoTick, stages |-> <<"Failed">>,
              out |-> Outcome("PredictiveTest.setup", "Failed", FALSE, "unread",
                              NoneRange, FALSE, FALSE, FALSE),
              run |-> Run(Env("failed", "unread", "unread", "unread", "unread", "none"),
                          Unavailable, FALSE, FALSE)]
        ELSE IF ~supplied.available
        THEN [metrics |-> [reset EXCEPT !.action_taken = "api_failed"],
              tick |-> NoTick, stages |-> st,
              out |-> Outcome(op, "Failed", FALSE, "unread", NoneRange, FALSE, FALSE, FALSE),
              run |-> Run(Env("ok", "failed", "unread", "unread", "unread", "none"),
                          supplied, FALSE, TRUE)]
        ELSE IF ~predicted_tick.ok
        THEN [metrics |-> [reset EXCEPT !.action_taken = tick_action],
              tick |-> NoTick, stages |-> st,
              out |-> Outcome(op, "Failed", FALSE, "unread", NoneRange, FALSE, TRUE, FALSE),
              run |-> Run(Env("ok", "ok", "unread", "unread", "unread", "none"),
                          supplied, FALSE, TRUE)]
        ELSE IF ~fund_ok
        THEN [metrics |-> [reset EXCEPT !.action_taken = "funding_failed"],
              tick |-> predicted_tick, stages |-> st,
              out |-> Outcome(op, "Failed", FALSE, "unread", NoneRange, FALSE, FALSE, FALSE),
              run |-> Run(Env("ok", "ok", "unread", "unread", "failed", "none"),
                          supplied, TRUE, TRUE)]
        ELSE [metrics |-> [reset EXCEPT !.action_taken = predictive_tx_action(txo),
                                        !.tx_hash = IF txo \in {"send_failed", "wait_failed"}
                                                    THEN 0 ELSE n],
              tick |-> predicted_tick, stages |-> st,
              out |-> Outcome(op, "Adjust", txo \in {"adjusted", "skipped_onchain", "no_event"},
                              "unread", NoneRange, FALSE, FALSE, sent),
              run |-> Run(Env("ok", "ok", "unread", "unread", "ok", txo),
                          supplied, TRUE, TRUE)]

\* ---- PredictiveTest.fund_contract_if_needed --------------------------------
\* The deployer account's transaction count is what get_transaction_count
\* returns; the node accepts a transaction only when its nonce equals that
\* count, and a transaction that reached the chain raises the count by one.
\* what becomes of a transaction whose nonce is right
TransferOutcomes == {"send_failed", "wait_failed", "reverted", "ok"}
\* wrap_eth_to_weth may also return before sending (balance too low)
WrapOutcomes == TransferOutcomes \cup {"not_sent"}

\* send_transaction of web3_utils.py with the nonce in tx_params: the
\* receipt status ("none" when the helper returns None) and the new count
send_transaction(count, nonce, fate) ==
    IF nonce # count \/ fate = "send_failed"
    THEN [receipt |-> "none", count |-> count]
    ELSE [receipt |-> IF fate = "wait_failed" THEN "none" ELSE fate,
          count |-> count + 1]

\* wrap_eth_to_weth: its tx_params carry no nonce, so send_transaction reads
\* the count itself
wrap_eth_to_weth(count, fate) ==
    IF fate = "not_sent" THEN [ok |-> FALSE, count |-> count]
    ELSE LET r == send_transaction(count, count, fate)
         IN  [ok |-> r.receipt = "ok", count |-> r.count]

\* a transfer as it was built: the nonce put into it and the account's
\* transaction count at that moment
Transfer(nonce, count) == [built |-> TRUE, nonce |-> nonce, count |-> count]
NoTransfer == [built |-> FALSE, nonce |-> 0, count |-> 0]
Funding(count, wrapped, weth, usdc, ret) ==
    [count |-> count, wrapped |-> wrapped, weth |-> weth, usdc |-> usdc, ret |-> ret]

\* the USDC part, entered with the local nonce and the account's count
fund_usdc_part(count, nonce, wrapped, weth, fund_usdc, usdc_fate) ==
    IF ~fund_usdc THEN Funding(count, wrapped, weth, NoTransfer, TRUE)
    ELSE LET r == send_transaction(count, nonce, usdc_fate)
         IN  Funding(r.count, wrapped, weth, Transfer(nonce, count), r.receipt = "ok")

\* the WETH transfer and what follows it; nonce is the value read before
\* any wrap, and it is incremented only after a successful WETH transfer
fund_weth_part(count, nonce, wrapped, fund_usdc, weth_fate, usdc_fate) ==
    LET r == send_transaction(count, nonce, weth_fate)
        weth == Transfer(nonce, count)
    IN  IF r.receipt = "ok"
        THEN fund_usdc_part(r.count, nonce + 1, wrapped, weth, fund_usdc, usdc_fate)
        ELSE Funding(r.count, wrapped, weth, NoTransfer, FALSE)

\* One call of fund_contract_if_needed with the account's count at entry.
fund_contract_if_needed(count, fund_weth, fund_usdc, need_wrap, wrap_fate, weth_fate, usdc_fate) ==
    LET nonce == count
        w == wrap_eth_to_weth(count, wrap_fate)
    IN  IF ~fund_weth /\ ~fund_usdc
        THEN Funding(count, FALSE, NoTransfer, NoTransfer, TRUE)
        ELSE IF ~fund_weth
        THEN fund_usdc_part(count, nonce, FALSE, NoTransfer, fund_usdc, usdc_fate)
        ELSE IF ~need_wrap
        THEN fund_weth_part(count, nonce, FALSE, fund_usdc, weth_fate, usdc_fate)
        ELSE IF ~w.ok
        THEN Funding(w.count, FALSE, NoTransfer, NoTransfer, FALSE)
        ELSE fund_weth_part(w.count, nonce, TRUE, fund_usdc, weth_fate, usdc_fate)

\* ---------------------------------------------------------------------
\* State
\* ---------------------------------------------------------------------
VARIABLES
    fn,        \* the function applied ("none" before the call); in the
               \* evaluation scenarios, the script that runs
    center,    \* input: center tick / current tick of the pool
    center2,   \* input: second tick of the alignment comparisons
    spacing,   \* input: tick spacing
    mult,      \* input: width multiplier
    res,       \* result of a range calculator or of an alignment
    price1,    \* input: price (the predicted price of a scenario)
    price2,    \* input: second price of the price conversions
    dec0,      \* input: token0 decimals
    dec1,      \* input: token1 decimals
    tick1,     \* tick converted from price1
    tick2,     \* tick converted from price2
    position,  \* input: the contract's current position
    metrics,   \* self.metrics of the BaselineTest instance
    out,       \* what the last evaluation cycle did
    cycles,    \* evaluation cycles run so far
    run,       \* what the last cycle consumed and left behind
    stages,    \* the stages the last cycle passed through, in order
    fund       \* the last call of fund_contract_if_needed and the account's
               \* transaction count after it

vars == <<fn, center, center2, spacing, mult, res, price1, price2, dec0, dec1, tick1, tick2,
          position, metrics, out, cycles, run, stages, fund>>

tickVars == <<center, center2, spacing, mult, res>>
priceVars == <<price1, price2, dec0, dec1, tick1, tick2>>
evalVars == <<position, metrics, out, cycles, run, stages, fund>>

InitMetrics == [action_taken |-> "init", tx_hash |-> 0]
IdlePosition == Position(FALSE, 0, 1)
NoFunding == Funding(0, FALSE, NoTransfer, NoTransfer, FALSE)

NoTickInputs == center = 0 /\ center2 = 0 /\ spacing = 1 /\ mult = width_multiplier /\ res = NoneRange
NoPriceInputs ==
    /\ price1 = ZeroPrice /\ price2 = ZeroPrice /\ dec0 = 0 /\ dec1 = 0
    /\ tick1 = NoTick /\ tick2 = NoTick
NoEval ==
    /\ position = IdlePosition /\ metrics = InitMetrics /\ out = NoOutcome
    /\ cycles = 0 /\ run = NoRun /\ stages = <<>> /\ fund = NoFunding

\* ---------------------------------------------------------------------
\* Tick calculations applied to inputs drawn from the bounded sets
\* ---------------------------------------------------------------------
InitTick ==
    /\ fn = "none"
    /\ center \in CenterTicks
    /\ center2 = center
    /\ spacing \in Spacings
    /\ mult \in Mults
    /\ res = NoneRange
    /\ NoPriceInputs
    /\ NoEval

CallFloorToTickSpacing ==
    /\ fn = "none"
    /\ fn' = "floor_to_tick_spacing"
    /\ res' = LET a == floor_to_tick_spacing(center, spacing) IN Range(a, a)
    /\ UNCHANGED <<center, center2, spacing, mult, priceVars, evalVars>>

CallFloorToTickSpacingPy ==
    /\ fn = "none"
    /\ fn' = "floor_to_tick_spacing_py"
    /\ res' = LET a == floor_to_tick_spacing_py(center, spacing) IN Range(a, a)
    /\ UNCHANGED <<center, center2, spacing, mult, priceVars, evalVars>>

CallFloorDivAlign ==
    /\ fn = "none"
    /\ fn' = "floor_div_align"
    /\ res' = LET a == floor_div_align(center, spacing) IN Range(a, a)
    /\ UNCHANGED <<center, center2, spacing, mult, priceVars, evalVars>>

CallTickCalculatorRange ==
    /\ fn = "none"
    /\ fn' = "TickCalculator.calculate_tick_range"
    /\ res' = TickCalculator_calculate_tick_range(center, spacing, mult)
    /\ UNCHANGED <<center, center2, spacing, mult, priceVars, evalVars>>

CallModuleRange ==
    /\ fn = "none"
    /\ fn' = "calculate_tick_range"
    /\ res' = calculate_tick_range(center, spacing, mult)
    /\ UNCHANGED <<center, center2, spacing, mult, priceVars, evalVars>>

\* the width multiplier of BaselineTest is fixed
CallBaselineRange ==
    /\ fn = "none"
    /\ mult = width_multiplier
    /\ fn' = "calculate_target_ticks_offchain"
    /\ res' = calculate_target_ticks_offchain(TRUE, spacing, TRUE, center)
    /\ UNCHANGED <<center, center2, spacing, mult, priceVars, evalVars>>

CallPredictiveRange ==
    /\ fn = "none"
    /\ fn' = "calculate_ticks_predictive_py"
    /\ res' = calculate_ticks_predictive_py(center, spacing, mult)
    /\ UNCHANGED <<center, center2, spacing, mult, priceVars, evalVars>>

NextTick ==
    \/ CallFloorToTickSpacing
    \/ CallFloorToTickSpacingPy
    \/ CallFloorDivAlign
    \/ CallTickCalculatorRange
    \/ CallModuleRange
    \/ CallBaselineRange
    \/ CallPredictiveRange

SpecTick == InitTick /\ [][NextTick]_vars

\* the same calculations on a tick spacing that is zero or negative
NonPositiveSpacings == (-MaxSpacing)..0

InitSpacing ==
    /\ fn = "none"
    /\ center \in CenterTicks
    /\ center2 = center
    /\ spacing \in NonPositiveSpacings
    /\ mult \in Mults
    /\ res = NoneRange
    /\ NoPriceInputs
    /\ NoEval

NextSpacing ==
    \/ CallFloorToTickSpacing
    \/ CallFloorToTickSpacingPy
    \/ CallTickCalculatorRange
    \/ CallPredictiveRange

SpecSpacing == InitSpacing /\ [][NextSpacing]_vars

\* the alignments applied to a pair of ticks under one spacing; res holds the
\* aligned first tick and the aligned second tick
AlignedPairTicks ==
    {MIN_TICK + d : d \in 0..Reach} \cup (-Reach..Reach)

InitAlign ==
    /\ fn = "none"
    /\ center \in AlignedPairTicks
    /\ center2 \in AlignedPairTicks
    /\ spacing \in Spacings
    /\ mult = width_multiplier
    /\ res = NoneRange
    /\ NoPriceInputs
    /\ NoEval

PairFloorToTickSpacing ==
    /\ fn = "none"
    /\ fn' = "floor_to_tick_spacing"
    /\ res' = Range(floor_to_tick_spacing(center, spacing),
                    floor_to_tick_spacing(center2, spacing))
    /\ UNCHANGED <<center, center2, spacing, mult, priceVars, evalVars>>

PairFloorToTickSpacingPy ==
    /\ fn = "none"
    /\ fn' = "floor_to_tick_spacing_py"
    /\ res' = Range(floor_to_tick_spacing_py(center, spacing),
                    floor_to_tick_spacing_py(center2, spacing))
    /\ UNCHANGED <<center, center2, spacing, mult, priceVars, evalVars>>

NextAlign ==
    \/ PairFloorToTickSpacing
    \/ PairFloorToTickSpacingPy

SpecAlign == InitAlign /\ [][NextAlign]_vars

AlignFns == {"floor_to_tick_spacing", "floor_to_tick_spacing_py"}
RangeFns == {"TickCalculator.calculate_tick_range", "calculate_tick_range",
             "calculate_target_ticks_offchain", "calculate_ticks_predictive_py"}
ReturnedRange == fn \in RangeFns /\ res.ok
\* the half width the range calculator named f works with
HalfWidthOf(f, tick_spacing, range_multiplier) ==
    CASE f = "TickCalculator.calculate_tick_range" ->
            TickCalculator_half_width(tick_spacing, range_multiplier)
      [] f = "calculate_tick_range" -> module_half_width(tick_spacing, range_multiplier)
      [] f = "calculate_target_ticks_offchain" -> baseline_half_width(tick_spacing)
      [] OTHER -> predictive_half_width(tick_spacing, range_multiplier)

\* ---------------------------------------------------------------------
\* Price conversions applied to two prices and a pair of token decimals
\* ---------------------------------------------------------------------
InitPrice ==
    /\ fn = "none"
    /\ price1 \in Prices \cup ExtremePrices
    /\ price2 \in Prices \cup ExtremePrices
    /\ dec0 \in Decimals
    /\ dec1 \in Decimals
    /\ tick1 = NoTick
    /\ tick2 = NoTick
    /\ NoTickInputs
    /\ NoEval

CallTickCalculatorPriceToTick ==
    /\ fn = "none"
    /\ fn' = "TickCalculator.price_to_tick"
    /\ tick1' = TickCalculator_price_to_tick(price1, dec0, dec1)
    /\ tick2' = TickCalculator_price_to_tick(price2, dec0, dec1)
    /\ UNCHANGED <<price1, price2, dec0, dec1, tickVars, evalVars>>

CallModulePriceToTick ==
    /\ fn = "none"
    /\ fn' = "price_to_tick"
    /\ tick1' = price_to_tick(price1, dec0, dec1)
    /\ tick2' = price_to_tick(price2, dec0, dec1)
    /\ UNCHANGED <<price1, price2, dec0, dec1, tickVars, evalVars>>

CallCalculateTickFromPrice ==
    /\ fn = "none"
    /\ fn' = "PredictiveTest.calculate_tick_from_price"
    /\ tick1' = calculate_tick_from_price(price1, dec0, dec1)
    /\ tick2' = calculate_tick_from_price(price2, dec0, dec1)
    /\ UNCHANGED <<price1, price2, dec0, dec1, tickVars, evalVars>>

CallPriceToTickPredictivePy ==
    /\ fn = "none"
    /\ fn' = "price_to_tick_predictive_py"
    /\ tick1' = Tick(price_to_tick_predictive_py(price1, dec0, dec1))
    /\ tick2' = Tick(price_to_tick_predictive_py(price2, dec0, dec1))
    /\ UNCHANGED <<price1, price2, dec0, dec1, tickVars, evalVars>>

NextPrice ==
    \/ CallTickCalculatorPriceToTick
    \/ CallModulePriceToTick
    \/ CallCalculateTickFromPrice
    \/ CallPriceToTickPredictivePy

SpecPrice == InitPrice /\ [][NextPrice]_vars

\* ---------------------------------------------------------------------
\* Evaluation cycles.  A scenario fixes the script, the pool parameters, the
\* pool tick or predicted price and the contract's position; every cycle
\* draws what the environment does (reads and transactions failing or not).
\* ---------------------------------------------------------------------
\* decimals the contracts report: USDC = 6 / WETH = 18, or two 18-decimal tokens
EvalDecimals == {<<6, 18>>, <<18, 18>>}
\* rangeWidthMultiplier the contract reports: a zero half width, or the default
EvalMults == {1, width_multiplier}

InitBaselineScenario ==
    /\ fn = "baseline_test"
    /\ center \in PoolTicks
    /\ spacing \in EvalSpacings
    /\ mult = width_multiplier
    /\ position \in Positions(spacing)
    /\ price1 = ZeroPrice /\ dec0 = 6 /\ dec1 = 18

InitCreatePositionScenario ==
    /\ fn = "test_create_position"
    /\ center = 0
    /\ spacing \in EvalSpacings
    /\ mult \in EvalMults
    /\ position \in Positions(spacing)
    /\ price1 \in Prices
    /\ \E d \in EvalDecimals : dec0 = d[1] /\ dec1 = d[2]

\* the concrete scenario of the specification: spacing 10, pool tick 100
ScenarioPositions == {Position(TRUE, 80, 120), Position(TRUE, 60, 100)}
InitConcreteScenario ==
    /\ fn = "baseline_test"
    /\ center = 100
    /\ spacing = 10
    /\ mult = width_multiplier
    /\ position \in ScenarioPositions
    /\ price1 = ZeroPrice /\ dec0 = 6 /\ dec1 = 18

\* decimals the PredictiveTest instance read in setup (0: a token without decimals)
PredictiveDecimals == EvalDecimals \cup {<<0, 18>>}
InitPredictiveScenario ==
    /\ fn = "predictive_test"
    /\ center = 0
    /\ spacing = 1
    /\ mult = width_multiplier
    /\ position = IdlePosition
    /\ price1 \in Prices
    /\ \E d \in PredictiveDecimals : dec0 = d[1] /\ dec1 = d[2]

InitEval ==
    /\ \/ InitBaselineScenario
       \/ InitCreatePositionScenario
       \/ InitConcreteScenario
       \/ InitPredictiveScenario
    /\ center2 = center
    /\ res = NoneRange
    /\ price2 = ZeroPrice /\ tick1 = NoTick /\ tick2 = NoTick
    /\ metrics = InitMetrics
    /\ out = NoOutcome
    /\ cycles = 0
    /\ run = NoRun
    /\ stages = <<>>
    /\ fund = NoFunding

\* cycles per behaviour: the instance of baseline_test.py keeps its metrics
\* from cycle to cycle; the other scripts start every cycle afresh
CyclesOf(script) == IF script = "baseline_test" THEN MaxCycles ELSE 1

BaselineExecuteTestSteps ==
    /\ fn = "baseline_test"
    /\ cycles < CyclesOf(fn)
    /\ \E setup_ok \in BOOLEAN, pool_ok \in BOOLEAN, pos_ok \in BOOLEAN, txo \in TxOutcomes :
          LET r == baseline_execute_test_steps(metrics, cycles + 1, spacing, setup_ok,
                                               pool_ok, center, pos_ok, position, txo)
          IN  /\ metrics' = r.metrics
              /\ out' = r.out
              /\ run' = r.run
              /\ stages' = r.stages
              /\ res' = r.out.target
    /\ cycles' = cycles + 1
    /\ UNCHANGED <<fn, center, center2, spacing, mult, priceVars, position, fund>>

ShouldAdjustPosition ==
    /\ fn = "test_create_position"
    /\ cycles < CyclesOf(fn)
    /\ \E env \in {"ok", "no_w3", "no_address", "rpc_error"}, is_baseline \in BOOLEAN :
          LET params == [tickSpacing |-> spacing, token0Decimals |-> dec0,
                         token1Decimals |-> dec1, rangeWidthMultiplier |-> mult]
              r == should_adjust_position(env, is_baseline, price1, params, position)
          IN  /\ out' = r
              /\ res' = r.target
    /\ cycles' = cycles + 1
    /\ UNCHANGED <<fn, center, center2, spacing, mult, priceVars, position, metrics, run, stages, fund>>

\* one contract of run_tests: get_predicted_price, then create_position
CreatePosition ==
    /\ fn = "test_create_position"
    /\ cycles < CyclesOf(fn)
    /\ \E api_ok \in BOOLEAN, env \in {"ok", "no_w3", "no_address", "rpc_error"},
          is_baseline \in BOOLEAN, fund_ok \in BOOLEAN, txo \in CreateTxOutcomes :
          LET params == [tickSpacing |-> spacing, token0Decimals |-> dec0,
                         token1Decimals |-> dec1, rangeWidthMultiplier |-> mult]
              supplied == get_predicted_price(api_ok, price1)
              r == create_position(supplied, env, is_baseline, params, position,
                                   fund_ok, txo)
          IN  /\ out' = r.out
              /\ run' = [r.run EXCEPT !.env.api = Status(api_ok)]
              /\ res' = r.out.target
    /\ cycles' = cycles + 1
    /\ UNCHANGED <<fn, center, center2, spacing, mult, priceVars, position, metrics, stages, fund>>

PredictiveExecuteTestSteps ==
    /\ fn = "predictive_test"
    /\ cycles < CyclesOf(fn)
    /\ \E setup_ok \in BOOLEAN, api_ok \in BOOLEAN, fund_ok \in BOOLEAN, txo \in CreateTxOutcomes :
          LET r == predictive_execute_test_steps(cycles + 1, setup_ok, api_ok, price1,
                                                 dec0, dec1, fund_ok, txo)
          IN  /\ metrics' = r.metrics
              /\ out' = r.out
              /\ run' = r.run
              /\ stages' = r.stages
              /\ tick1' = r.tick
    /\ cycles' = cycles + 1
    /\ UNCHANGED <<fn, tickVars, price1, price2, dec0, dec1, tick2, position, fund>>

NextEval ==
    \/ BaselineExecuteTestSteps
    \/ ShouldAdjustPosition
    \/ CreatePosition
    \/ PredictiveExecuteTestSteps

SpecEval == InitEval /\ [][NextEval]_vars

\* ---------------------------------------------------------------------
\* Funding calls of one PredictiveTest instance: the deployer account has
\* sent some transactions before, every call draws which tokens are short,
\* whether ETH must be wrapped and what becomes of each transaction
\* ---------------------------------------------------------------------
\* transactions the deployer account sent before the first call: 0..MaxNonce
MaxNonce == 3

InitFund ==
    /\ fn = "predictive_test"
    /\ NoTickInputs
    /\ NoPriceInputs
    /\ position = IdlePosition /\ metrics = InitMetrics /\ out = NoOutcome
    /\ cycles = 0 /\ run = NoRun /\ stages = <<>>
    /\ \E n \in 0..MaxNonce : fund = [NoFunding EXCEPT !.count = n]

FundContractIfNeeded ==
    /\ cycles < MaxCycles
    /\ \E fund_weth \in BOOLEAN, fund_usdc \in BOOLEAN, need_wrap \in BOOLEAN,
          wrap_fate \in WrapOutcomes, weth_fate \in TransferOutcomes,
          usdc_fate \in TransferOutcomes :
          fund' = fund_contract_if_needed(fund.count, fund_weth, fund_usdc, need_wrap,
                                          wrap_fate, weth_fate, usdc_fate)
    /\ cycles' = cycles + 1
    /\ UNCHANGED <<fn, tickVars, priceVars, position, metrics, out, run, stages>>

NextFund == FundContractIfNeeded

SpecFund == InitFund /\ [][NextFund]_vars

\* ---------------------------------------------------------------------
\* Claims about the tick calculations (checked under SpecTick)
\* ---------------------------------------------------------------------

\* C1: for every center tick in [MIN_TICK, MAX_TICK], spacing > 0 and width
\* multiplier >= 1, the range returned by TickCalculator.calculate_tick_range
\* and by BaselineTest.calculate_target_ticks_offchain has lower < upper.
C1_LowerBelowUpper ==
    (fn \in {"TickCalculator.calculate_tick_range", "calculate_target_ticks_offchain"}
        /\ res.ok)
    => res.lower < res.upper

\* C2: both bounds of every returned range are exact multiples of the tick
\* spacing, also when a bound was clamped to MIN_TICK or MAX_TICK.
C2_BoundsAligned ==
    ReturnedRange => (res.lower % spacing = 0 /\ res.upper % spacing = 0)

\* C3: both bounds of every returned range lie within [MIN_TICK, MAX_TICK];
\* aligning to the spacing never moves a bound outside.
C3_BoundsWithinLimits ==
    ReturnedRange =>
        /\ MIN_TICK <= res.lower /\ res.lower <= MAX_TICK
        /\ MIN_TICK <= res.upper /\ res.upper <= MAX_TICK

\* C4: for all spacing > 0 and all ticks, the aligned tick is an exact
\* multiple of the spacing and is less than or equal to the tick.
C4_AlignedMultipleBelow ==
    fn \in AlignFns => (res.lower % spacing = 0 /\ res.lower <= center)

\* a negative tick that is not a multiple of the spacing has been aligned
C4_Witness ==
    fn \in AlignFns /\ center < 0 /\ center % spacing # 0 /\ spacing > 1

\* C5: the aligned tick is the greatest multiple m of the spacing with
\* m <= tick, i.e. 0 <= tick - m < spacing (for a negative non-multiple: one
\* spacing unit below what truncating division gives).
C5_NearestLowerMultiple ==
    fn \in (AlignFns \cup {"floor_div_align"}) =>
        /\ res.lower % spacing = 0
        /\ 0 <= center - res.lower
        /\ center - res.lower < spacing

\* ---------------------------------------------------------------------
\* Claims about the price conversions (checked under SpecPrice)
\* ---------------------------------------------------------------------
PriceFns == {"TickCalculator.price_to_tick", "PredictiveTest.calculate_tick_from_price",
             "price_to_tick_predictive_py"}

\* C6: priceToTick is monotonically non-decreasing in price: for two positive
\* prices price1 < price2 converted with the same token decimals, the tick of
\* price1 is at most the tick of price2.
C6_PriceToTickMonotone ==
    (fn \in PriceFns /\ price1.sign > 0 /\ price2.sign > 0 /\ price1.lg < price2.lg
        /\ tick1.ok /\ tick2.ok)
    => tick1.tick <= tick2.tick

\* ---------------------------------------------------------------------
\* Claims about the evaluation cycles (checked under SpecEval)
\* ---------------------------------------------------------------------

\* C7: whenever the position snapshot is inactive, the evaluation decides
\* Adjust, for every target range, and never compares the target with the
\* absent current range.
C7_NoPositionForcesAdjust ==
    out.snapshot = "inactive" => (out.decision = "Adjust" /\ ~out.compared)

\* a cycle read an inactive position whose struct holds exactly the ticks of
\* the target it computed
C7_Witness ==
    /\ out.op = "BaselineTest.adjust_position"
    /\ out.snapshot = "inactive"
    /\ out.target.ok
    /\ position.tickLower = out.target.lower
    /\ position.tickUpper = out.target.upper

\* C8: for an active position, whenever the freshly computed target range
\* equals the held range exactly (same lower, same upper), the evaluation
\* decides Skip, for every spacing > 0.
C8_EqualTargetSkips ==
    (out.snapshot = "active" /\ out.target.ok
        /\ out.target.lower = position.tickLower
        /\ out.target.upper = position.tickUpper)
    => out.decision = "Skip"

\* C9: for an active position the decision is Skip if and only if both bounds
\* of the target are within one tick spacing (the default threshold) of the
\* held bounds; in every other case the decision is Adjust.
C9_SkipIffWithinSpacing ==
    (out.snapshot = "active" /\ out.target.ok) =>
        /\ out.decision \in {"Skip", "Adjust"}
        /\ out.decision = "Skip" <=>
              is_close(out.target.lower, out.target.upper,
                       position.tickLower, position.tickUpper, spacing)

\* C10: a cycle in which the target tick or the target range could not be
\* computed is never reported as Skip.
C10_FailureNeverSkip ==
    out.calc_failed => out.decision # "Skip"

\* C11: when the price-to-tick conversion, the range calculation or the
\* off-chain check itself fails, the evaluation does not decide Adjust and no
\* adjustment transaction is submitted in that cycle.
C11_FailureNeverAdjust ==
    out.calc_failed => (out.decision # "Adjust" /\ ~out.tx_sent)

\* C12 (SpecPrice): for every price <= 0 the conversion returns no tick; it
\* never defaults to tick 0 or to any other tick.
C12_NonPositivePriceNoTick ==
    (fn \in PriceFns /\ price1.sign <= 0) => ~tick1.ok

\* C13 (SpecSpacing): with a tick spacing <= 0 the alignment and the range
\* calculation fail; they return neither a tick nor a range.
C13_InvalidSpacingFails ==
    (fn \in (AlignFns \cup RangeFns) /\ spacing <= 0) => ~res.ok

\* C14: in a cycle whose off-chain decision is Skip, no adjustment
\* transaction is sent and no funding transfer is attempted.
C14_SkipSendsNothing ==
    out.decision = "Skip" => (~out.tx_sent /\ ~run.funding)

\* create_position skipped after comparing the target with the held range
C14_Witness ==
    /\ out.op = "create_position"
    /\ out.decision = "Skip"
    /\ out.compared
    /\ run.saved

\* C15: whichever way a cycle of execute_test_steps ends, a metrics row for
\* that cycle has been saved before the cycle returns.
ExecuteTestStepsOps == {"BaselineTest.setup", "BaselineTest.adjust_position",
                        "PredictiveTest.setup", "PredictiveTest.adjust_position"}
C15_EveryCycleSavesRow ==
    out.op \in ExecuteTestStepsOps => run.saved

\* C16: a cycle is a pure function of its inputs: the metrics a cycle of the
\* BaselineTest instance records are the metrics a fresh instance records
\* when it meets the same pool, position and environment.
C16_CycleIsPure ==
    out.op \in {"BaselineTest.setup", "BaselineTest.adjust_position"} =>
        metrics = baseline_execute_test_steps(
                      InitMetrics, cycles, spacing, run.env.setup = "ok",
                      run.env.pool = "ok", center, run.env.pos = "ok", position,
                      run.env.tx).metrics

\* C17: when every API call of the price source fails, the cycle is handed
\* the unavailable signal, never a fabricated or fixed fallback price.
C17_FailedSourceIsUnavailable ==
    run.env.api = "failed" => ~run.price.available

\* C18 (SpecPrice): for the same positive price and the same token decimals
\* every price-to-tick conversion returns the same tick.
AllPriceFns == PriceFns \cup {"price_to_tick"}
C18_OneConvention ==
    (fn \in AllPriceFns /\ price1.sign > 0 /\ tick1.ok) =>
        tick1.tick = TickCalculator_price_to_tick(price1, dec0, dec1).tick

\* C19: with spacing 10, width multiplier 4 and center tick 100 the computed
\* range is (80, 120); against an active position (80, 120) the decision is
\* Skip, against an active position (60, 100) it is Adjust to (80, 120).
C19_ConcreteScenario ==
    (out.op = "BaselineTest.adjust_position" /\ out.snapshot = "active"
        /\ spacing = 10 /\ center = 100 /\ mult = 4) =>
        /\ out.target = Range(80, 120)
        /\ position = Position(TRUE, 80, 120) => out.decision = "Skip"
        /\ position = Position(TRUE, 60, 100) =>
              (out.decision = "Adjust" /\ res = Range(80, 120))

\* the cycle met the position (60, 100) at pool tick 100 and asked for the
\* adjustment
C19_Witness ==
    /\ out.op = "BaselineTest.adjust_position"
    /\ spacing = 10 /\ center = 100
    /\ position = Position(TRUE, 60, 100)
    /\ out.snapshot = "active"
    /\ out.decision = "Adjust"

\* C20 (SpecPrice): the tick of every price-to-tick conversion lies within
\* [MIN_TICK, MAX_TICK], for every positive price and every pair of decimals.
C20_TickClamped ==
    (fn \in AllPriceFns /\ price1.sign > 0 /\ tick1.ok) =>
        (MIN_TICK <= tick1.tick /\ tick1.tick <= MAX_TICK)

\* C21 (SpecAlign): the alignment is monotonic: for every spacing > 0 and all
\* ticks t1 <= t2, negative non-multiples included, the aligned t1 is at most
\* the aligned t2.
C21_AlignMonotone ==
    (fn \in AlignFns /\ spacing > 0 /\ center <= center2) => res.lower <= res.upper

\* C22 (SpecPrice): the conversion rounds with floor, not toward zero: whenever
\* the exact logarithm value is negative and not an integer (and its floor is
\* within the tick limits), the returned tick is the greatest integer below it.
C22_FloorNotTruncation ==
    (fn \in AllPriceFns /\ price1.sign > 0 /\ tick1.ok) =>
        LET v == LogValue(fn, price1, dec0, dec1)
        IN  (v.num < 0 /\ v.num % v.den # 0
                /\ MIN_TICK <= v.num \div v.den /\ v.num \div v.den <= MAX_TICK)
            => tick1.tick = v.num \div v.den

\* C23 (SpecTick): in the range calculation the half width is
\* floor(spacing * widthMultiplier / 2), or the spacing when that is 0, for
\* every spacing > 0 and width multiplier >= 1.
C23_HalfWidth ==
    fn \in RangeFns =>
        HalfWidthOf(fn, spacing, mult) =
            (IF (spacing * mult) \div 2 = 0 THEN spacing ELSE (spacing * mult) \div 2)

\* C24: within one cycle the stages occur only in the order PriceObtained,
\* TickComputed, RangeComputed, Decided (then the submission); a stage may go
\* directly to Failed, after which no further stage of that cycle runs, and
\* no stage occurs twice.
StageRank(stage) ==
    CASE stage = "PriceObtained" -> 1
      [] stage = "TickComputed" -> 2
      [] stage = "RangeComputed" -> 3
      [] stage = "Decided" -> 4
      [] stage = "Submitted" -> 5
      [] OTHER -> 6
C24_StagesInOrder ==
    \A i \in 1..Len(stages), j \in 1..Len(stages) :
        i < j => StageRank(stages[i]) < StageRank(stages[j])

\* a cycle went through all stages, attempted the transaction and failed there
C24_Witness ==
    /\ out.op = "BaselineTest.adjust_position"
    /\ stages = <<"PriceObtained", "TickComputed", "RangeComputed", "Decided",
                  "Submitted", "Failed">>

\* C25: a cycle of BaselineTest.adjust_position records tx_wait_failed only
\* if a transaction was sent in that same cycle; a cycle whose send fails
\* records unexpected_error, also after an earlier cycle that sent one.
C25_WaitFailedOnlyAfterSend ==
    out.op = "BaselineTest.adjust_position" =>
        /\ metrics.action_taken = "tx_wait_failed" => out.tx_sent
        /\ run.env.tx = "send_failed" => metrics.action_taken = "unexpected_error"

\* C28: when reading the current position fails, BaselineTest.adjust_position
\* ends the cycle in a failure outcome and sends no adjustment transaction.
C28_FailedReadIsFailure ==
    (out.op = "BaselineTest.adjust_position" /\ out.snapshot = "failed") =>
        (out.decision = "Failed" /\ ~out.tx_sent)

\* C29: whenever adjust_position returns False, the row saved for the cycle
\* carries a failure value of action_taken, never init, skipped_proximity or
\* tx_success_adjusted.
FailureActions == {"pool_read_failed", "api_failed", "calculation_failed",
                   "funding_failed", "tx_reverted", "tx_wait_failed",
                   "unexpected_error"}
C29_FalseMeansFailureRow ==
    (out.op \in {"BaselineTest.adjust_position", "PredictiveTest.adjust_position"}
        /\ ~out.ret /\ run.saved)
    => metrics.action_taken \in FailureActions

\* C27 (SpecTick): the computed range surrounds the center tick: whenever the
\* half width is at least the spacing and no bound comes near enough to
\* MIN_TICK or MAX_TICK to be clamped, lower <= centerTick < upper.
Unclamped(f) ==
    /\ MIN_TICK <= center - HalfWidthOf(f, spacing, mult) - 2 * spacing
    /\ center + HalfWidthOf(f, spacing, mult) + 2 * spacing <= MAX_TICK
C27_RangeSurroundsCenter ==
    (ReturnedRange /\ HalfWidthOf(fn, spacing, mult) >= spacing /\ Unclamped(fn))
    => (res.lower <= center /\ center < res.upper)

\* C30 (SpecTick): for the same center tick, spacing > 0 and width multiplier
\* 4 the four range calculators return the same (lower, upper) pair.
C30_RangeCalculatorsAgree ==
    (fn \in RangeFns /\ mult = width_multiplier) =>
        /\ res = TickCalculator_calculate_tick_range(center, spacing, mult)
        /\ res = calculate_tick_range(center, spacing, mult)
        /\ res = calculate_target_ticks_offchain(TRUE, spacing, TRUE, center)
        /\ res = calculate_ticks_predictive_py(center, spacing, mult)

\* C26 (SpecFund): in fund_contract_if_needed every transfer is built with
\* a nonce equal to the number of transactions the deployer account has sent
\* at that moment, also after wrap_eth_to_weth sent one, and the USDC
\* transfer never uses the nonce of the WETH transfer of the same call.
C26_TransferNonceIsCount ==
    /\ fund.weth.built => fund.weth.nonce = fund.weth.count
    /\ fund.usdc.built => fund.usdc.nonce = fund.usdc.count
    /\ (fund.weth.built /\ fund.usdc.built) => fund.usdc.nonce # fund.weth.nonce

====
